---- MODULE Spec2Model ----
(***************************************************************************)
(* ethspeed (src/main.go): an HTTP speed-test server (download / upload /  *)
(* stats handlers over one shared ServerStats) and its console client.     *)
(*                                                                         *)
(* Byte counts are kept in units of 64 bytes, the gcd of 1 MiB (the server *)
(* bounds and chunk size) and 1 MB (the client's request size), so that    *)
(* maxBytes = 10 GiB fits the model checker's 32-bit integers.  Every      *)
(* operation the program performs on byte counts (+, -, <, >, min) is      *)
(* preserved by the scaling.                                               *)
(***************************************************************************)
EXTENDS Integers, Sequences, FiniteSets, TLC

\* ------------------------------------------------------------ bounds
\* number of connections served concurrently, one request each
NumReq == 2
\* largest download streamed by the server model, in chunks
MaxChunks == 2

\* --------------------------------------------------------- constants
\* one KiB in 64-byte units
KiB == 1024 \div 64
downloadBufferSize == 1024 * KiB
minBytes == 1 * 1024 * KiB
maxBytes == 10 * 1024 * 1024 * KiB
\* the client's decimal megabyte (1_000_000 bytes) in 64-byte units
MB == 1000000 \div 64
\* net/http keeps a response write of at most 4 KiB in the connection's
\* buffered writer until the buffer overflows or the handler returns
connBufSize == 4 * KiB

StatusOK == 200
StatusBadRequest == 400
StatusMethodNotAllowed == 405
StatusInternalServerError == 500

Req == 1..NumReq

Max(a, b) == IF a >= b THEN a ELSE b

VARIABLES
    stats,          \* the ServerStats fields (src/main.go:61-72)
    mu,             \* stats.mu: [writer: 0 or a request, readers: set]
    clock,          \* the last value time.Now() returned
    req,            \* per request: the handler's position and locals
    maxConcurrent,  \* history: the largest value currentConcurrent has held
    proc,           \* the server process: signal, listener, main and shutdown goroutines
    cli             \* the console client: its configuration and the orchestrator's locals

vars == <<stats, mu, clock, req, maxConcurrent, proc, cli>>

\* ---------------------------------------------------------- requests
\* The `bytes` query parameter as strconv.ParseInt sees it: absent, text that
\* is no base-10 integer, or the decimal form of an integer.
NoParam == [tag |-> "missing", val |-> 0]
TextParam == [tag |-> "text", val |-> 0]
IntParam(n) == [tag |-> "int", val |-> n]

NoSnap ==
    [taken |-> FALSE, totalDownloads |-> -1, totalUploads |-> -1,
     totalBytesDown |-> -1, totalBytesUp |-> -1, totalConnections |-> -1,
     lastRequest |-> -1, peakConcurrent |-> -1]

IdleReq ==
    [pc |-> "idle", kind |-> "none", method |-> "none", param |-> NoParam,
     numBytes |-> 0, current |-> 0, peak |-> 0,
     remaining |-> 0, bufLen |-> 0, writes |-> <<>>,
     sent |-> 0, flushed |-> 0, contentLength |-> -1,
     status |-> 0, uploadedBytes |-> -1, respBytes |-> -1,
     tmp |-> 0, failed |-> FALSE, snap |-> NoSnap, seen |-> {},
     prev |-> NoSnap, doneBefore |-> {}, atLock |-> <<>>]

\* mutant: the upper bound is not checked
parseBytesNoMax(param) ==
    IF param.tag = "missing" THEN <<0, FALSE>>
    ELSE IF param.tag # "int" THEN <<0, FALSE>>
    ELSE IF param.val < minBytes THEN <<0, FALSE>>
    ELSE <<param.val, TRUE>>

\* parseBytes: <<numBytes, ok>>
parseBytes(param) ==
    IF param.tag = "missing" THEN <<0, FALSE>>
    ELSE IF param.tag # "int" THEN <<0, FALSE>>
    ELSE IF param.val < minBytes \/ param.val > maxBytes THEN <<0, FALSE>>
    ELSE <<param.val, TRUE>>

InitStats ==
    /\ stats = [totalDownloads |-> 0, totalUploads |-> 0,
                totalBytesDown |-> 0, totalBytesUp |-> 0,
                totalConnections |-> 0, startTime |-> 1,
                lastRequestTime |-> 0,
                peakConcurrent |-> 0, currentConcurrent |-> 0]
    /\ mu = [writer |-> 0, readers |-> {}]
    /\ clock = 1
    /\ req = [r \in Req |-> IdleReq]
    /\ maxConcurrent = 0

\* the fields that stats.mu guards
Totals ==
    <<stats.totalDownloads, stats.totalUploads, stats.totalBytesDown,
      stats.totalBytesUp, stats.totalConnections, stats.lastRequestTime>>

\* The process is running: no goroutine steps once it has exited.
Alive == proc.exit = -1

Set(r, f) == req' = [req EXCEPT ![r] = f]

\* time.Now(): the clock advances on every reading
Now == clock + 1

\* What the client of request d has in hand: a download's whole body once every
\* declared byte has left the server's buffers; an upload's (or an error's) small
\* response once the handler has returned and net/http has flushed it.
ClientObserved(d) ==
    \/ /\ req[d].kind = "down"
       /\ req[d].contentLength >= 0
       /\ req[d].flushed = req[d].contentLength
    \/ /\ req[d].kind = "up"
       /\ req[d].pc = "done"
       /\ req[d].status = StatusOK

\* ------------------------------------------------- downloadHandler
\* mutant: the parameter is validated before the method is checked
downloadHandlerEnterParseFirst(r, method, param) ==
    /\ Alive /\ proc.listening
    /\ req[r].pc = "idle"
    /\ LET p == parseBytes(param)
           q == [req[r] EXCEPT !.kind = "down", !.method = method, !.param = param]
       IN  IF ~p[2]
           THEN /\ Set(r, [q EXCEPT !.status = StatusBadRequest, !.pc = "done"])
                /\ UNCHANGED <<stats, maxConcurrent>>
           ELSE IF method # "GET"
           THEN /\ Set(r, [q EXCEPT !.status = StatusMethodNotAllowed, !.pc = "done"])
                /\ UNCHANGED <<stats, maxConcurrent>>
           ELSE /\ stats' = [stats EXCEPT !.currentConcurrent = @ + 1]
                /\ maxConcurrent' = Max(maxConcurrent, stats'.currentConcurrent)
                /\ Set(r, [q EXCEPT !.numBytes = p[1], !.pc = "loadCurrent"])
    /\ UNCHANGED <<mu, clock, proc, cli>>

\* Entry: method check, parseBytes, then the atomic increment (with its deferred
\* decrement registered). The checks touch only the request, so they are one step
\* with the first shared access.
downloadHandlerEnter(r, method, param) ==
    /\ Alive /\ proc.listening
    /\ req[r].pc = "idle"
    /\ LET p == parseBytes(param)
           q == [req[r] EXCEPT !.kind = "down", !.method = method, !.param = param]
       IN  IF method # "GET"
           THEN /\ Set(r, [q EXCEPT !.status = StatusMethodNotAllowed, !.pc = "done"])
                /\ UNCHANGED <<stats, maxConcurrent>>
           ELSE IF ~p[2]
           THEN /\ Set(r, [q EXCEPT !.status = StatusBadRequest, !.pc = "done"])
                /\ UNCHANGED <<stats, maxConcurrent>>
           ELSE /\ stats' = [stats EXCEPT !.currentConcurrent = @ + 1]
                /\ maxConcurrent' = Max(maxConcurrent, stats'.currentConcurrent)
                /\ Set(r, [q EXCEPT !.numBytes = p[1], !.pc = "loadCurrent"])
    /\ UNCHANGED <<mu, clock, proc, cli>>

\* current := atomic.LoadInt64(&stats.currentConcurrent)
LoadCurrent(r) ==
    /\ Alive
    /\ req[r].pc = "loadCurrent"
    /\ Set(r, [req[r] EXCEPT !.current = stats.currentConcurrent, !.pc = "loadPeak"])
    /\ UNCHANGED <<stats, mu, clock, maxConcurrent, proc, cli>>

\* peak := atomic.LoadInt64(&stats.peakConcurrent), before the loop and in its body
LoadPeak(r) ==
    /\ Alive
    /\ req[r].pc = "loadPeak"
    /\ Set(r, [req[r] EXCEPT !.peak = stats.peakConcurrent, !.pc = "peakLoop"])
    /\ UNCHANGED <<stats, mu, clock, maxConcurrent, proc, cli>>

\* Where the handler goes on leaving the peak loop: the download sets its headers
\* and allocates the buffer (locals only), the upload starts reading the body.
\* current and peak are not read again and are cleared.
AfterPeak(q) ==
    IF q.kind = "down"
    THEN [q EXCEPT !.contentLength = q.numBytes, !.bufLen = downloadBufferSize,
                   !.remaining = q.numBytes, !.current = 0, !.peak = 0,
                   !.pc = "write"]
    ELSE [q EXCEPT !.current = 0, !.peak = 0, !.pc = "read"]

\* mutant: the loop body does not read the stored peak again
OnSwapFailedNoReload(q) == [q EXCEPT !.pc = "peakLoop"]

\* the loop body after a failed swap: peak = atomic.LoadInt64(&stats.peakConcurrent)
\* is the handler's next step
OnSwapFailed(q) == [q EXCEPT !.pc = "loadPeak"]

\* mutant: the loop swaps whenever the two values differ
ExceedsOrDiffers(current, peak) == current # peak

\* the first operand of the loop condition: current > peak
Exceeds(current, peak) == current > peak

\* One evaluation of the loop condition
\*   current > peak && !atomic.CompareAndSwapInt64(&stats.peakConcurrent, peak, current)
PeakLoop(r) ==
    /\ Alive
    /\ req[r].pc = "peakLoop"
    /\ IF Exceeds(req[r].current, req[r].peak)
       THEN IF stats.peakConcurrent = req[r].peak
            THEN /\ stats' = [stats EXCEPT !.peakConcurrent = req[r].current]
                 /\ Set(r, AfterPeak(req[r]))
            ELSE /\ Set(r, OnSwapFailed(req[r]))
                 /\ UNCHANGED stats
       ELSE /\ Set(r, AfterPeak(req[r]))
            /\ UNCHANGED stats
    /\ UNCHANGED <<mu, clock, maxConcurrent, proc, cli>>

\* net/http's buffered writer: a write that does not fit the connection buffer
\* pushes everything out, a small one waits for a later write or the return
Flushed(q, n) ==
    IF (q.sent - q.flushed) + n > connBufSize THEN q.sent + n ELSE q.flushed

\* mutant: the last chunk is not cut down to what remains
WriteSizeWhole(remaining, bufLen) == bufLen

\* writeSize := int64(len(buffer)); if remaining < writeSize { writeSize = remaining }
WriteSize(remaining, bufLen) == IF remaining < bufLen THEN remaining ELSE bufLen

\* One iteration of `for remaining > 0` whose w.Write succeeds
WriteChunk(r) ==
    /\ Alive
    /\ req[r].pc = "write"
    /\ req[r].remaining > 0
    /\ LET q == req[r]
           writeSize == WriteSize(q.remaining, q.bufLen)
           buffer == IF q.remaining < q.bufLen THEN writeSize ELSE q.bufLen
           left == q.remaining - writeSize
       IN  Set(r, [q EXCEPT !.bufLen = buffer,
                            !.writes = Append(@, buffer),
                            !.sent = @ + buffer,
                            !.flushed = Flushed(q, buffer),
                            !.status = StatusOK,
                            !.remaining = left,
                            !.pc = IF left > 0 THEN "write" ELSE "lock"])
    /\ UNCHANGED <<stats, mu, clock, maxConcurrent, proc, cli>>

\* The iteration whose w.Write fails: log and return
WriteError(r) ==
    /\ Alive
    /\ req[r].pc = "write"
    /\ req[r].remaining > 0
    /\ Set(r, [req[r] EXCEPT !.failed = TRUE, !.pc = "return"])
    /\ UNCHANGED <<stats, mu, clock, maxConcurrent, proc, cli>>

\* mutant: the statistics are updated without mutual exclusion
CanLockAlways(m) == TRUE

\* sync.RWMutex: Lock waits until no goroutine holds the lock in either mode
CanLock(m) == m.writer = 0 /\ m.readers = {}

\* mutant: a reader does not wait for the writer
CanRLockAlways(m) == TRUE

\* RLock waits until no writer holds it
CanRLock(m) == m.writer = 0

\* stats.mu.Lock()
Lock(r) ==
    /\ Alive
    /\ req[r].pc = "lock"
    /\ CanLock(mu)
    /\ mu' = [mu EXCEPT !.writer = r]
    /\ Set(r, [req[r] EXCEPT !.pc = IF req[r].kind = "down" THEN "incDownloads"
                                                            ELSE "incUploads"])
    /\ UNCHANGED <<stats, clock, maxConcurrent, proc, cli>>

\* `stats.f++` and `stats.f += d` on a plain int64 are a read and a write
FieldLoad(r, at, f) ==
    /\ Alive
    /\ req[r].pc = at
    /\ Set(r, [req[r] EXCEPT !.tmp = stats[f], !.pc = at \o ".store"])
    /\ UNCHANGED <<stats, mu, clock, maxConcurrent, proc, cli>>

FieldStore(r, at, f, d, next) ==
    /\ Alive
    /\ req[r].pc = at \o ".store"
    /\ stats' = [stats EXCEPT ![f] = req[r].tmp + d]
    /\ Set(r, [req[r] EXCEPT !.tmp = 0, !.pc = next])
    /\ UNCHANGED <<mu, clock, maxConcurrent, proc, cli>>

\* stats.totalDownloads++
IncDownloads(r) ==
    \/ FieldLoad(r, "incDownloads", "totalDownloads")
    \/ FieldStore(r, "incDownloads", "totalDownloads", 1, "addBytesDown")

\* stats.totalBytesDown += numBytes
AddBytesDown(r) ==
    \/ FieldLoad(r, "addBytesDown", "totalBytesDown")
    \/ FieldStore(r, "addBytesDown", "totalBytesDown", req[r].numBytes, "setLastRequest")

\* stats.lastRequestTime = time.Now()
SetLastRequest(r) ==
    /\ Alive
    /\ req[r].pc = "setLastRequest"
    /\ clock' = Now
    /\ stats' = [stats EXCEPT !.lastRequestTime = Now]
    /\ Set(r, [req[r] EXCEPT !.pc = "unlock"])
    /\ UNCHANGED <<mu, maxConcurrent, proc, cli>>

\* stats.mu.Unlock()
Unlock(r) ==
    /\ Alive
    /\ req[r].pc = "unlock"
    /\ mu' = [mu EXCEPT !.writer = 0]
    /\ Set(r, [req[r] EXCEPT !.pc = "return"])
    /\ UNCHANGED <<stats, clock, maxConcurrent, proc, cli>>

\* mutant: the decrement is not deferred, so an early return skips it
DeferredMissing(n) == n

\* defer atomic.AddInt64(&stats.currentConcurrent, -1)
Deferred(n) == n - 1

\* The handler returns: the deferred atomic.AddInt64(&stats.currentConcurrent, -1)
\* runs and net/http flushes what the response still holds
Return(r) ==
    /\ Alive
    /\ req[r].pc = "return"
    /\ stats' = [stats EXCEPT !.currentConcurrent = Deferred(@)]
    /\ Set(r, [req[r] EXCEPT !.flushed = req[r].sent, !.pc = "done"])
    /\ UNCHANGED <<mu, clock, maxConcurrent, proc, cli>>

\* --------------------------------------------------- uploadHandler
uploadHandlerEnter(r, method, param) ==
    /\ Alive /\ proc.listening
    /\ req[r].pc = "idle"
    /\ LET p == parseBytes(param)
           q == [req[r] EXCEPT !.kind = "up", !.method = method, !.param = param]
       IN  IF method # "POST"
           THEN /\ Set(r, [q EXCEPT !.status = StatusMethodNotAllowed, !.pc = "done"])
                /\ UNCHANGED <<stats, maxConcurrent>>
           ELSE IF ~p[2]
           THEN /\ Set(r, [q EXCEPT !.status = StatusBadRequest, !.pc = "done"])
                /\ UNCHANGED <<stats, maxConcurrent>>
           ELSE /\ stats' = [stats EXCEPT !.currentConcurrent = @ + 1]
                /\ maxConcurrent' = Max(maxConcurrent, stats'.currentConcurrent)
                /\ Set(r, [q EXCEPT !.numBytes = p[1], !.pc = "loadCurrent"])
    /\ UNCHANGED <<mu, clock, proc, cli>>

\* uploadedBytes, err := io.Copy(io.Discard, r.Body) reading a body of m bytes to
\* its end, then the 200 response with the count
ReadBody(r, m) ==
    /\ Alive
    /\ req[r].pc = "read"
    /\ Set(r, [req[r] EXCEPT !.uploadedBytes = m, !.status = StatusOK,
                             !.respBytes = m, !.pc = "lock"])
    /\ UNCHANGED <<stats, mu, clock, maxConcurrent, proc, cli>>

\* mutant: the error branch does not return
OnReadErrorNoReturn(q) ==
    [q EXCEPT !.failed = TRUE, !.status = StatusInternalServerError, !.pc = "lock"]

\* the err != nil branch of lines 278-282: log, http.Error 500, return
OnReadError(q) ==
    [q EXCEPT !.failed = TRUE, !.status = StatusInternalServerError, !.pc = "return"]

\* io.Copy returns an error
ReadError(r) ==
    /\ Alive
    /\ req[r].pc = "read"
    /\ Set(r, OnReadError(req[r]))
    /\ UNCHANGED <<stats, mu, clock, maxConcurrent, proc, cli>>

\* stats.totalUploads++
IncUploads(r) ==
    \/ FieldLoad(r, "incUploads", "totalUploads")
    \/ FieldStore(r, "incUploads", "totalUploads", 1, "addBytesUp")

\* mutant: the declared size is accounted
UploadAmountDeclared(q) == q.numBytes

\* the amount line 296 adds: the bytes read, not the bytes declared
UploadAmount(q) == q.uploadedBytes

\* stats.totalBytesUp += uploadedBytes
AddBytesUp(r) ==
    \/ FieldLoad(r, "addBytesUp", "totalBytesUp")
    \/ FieldStore(r, "addBytesUp", "totalBytesUp", UploadAmount(req[r]), "incConnections")

\* mutant: the upload does not count its connection (as the download does not)
IncConnectionsMissing(r) ==
    \/ FieldLoad(r, "incConnections", "totalConnections")
    \/ FieldStore(r, "incConnections", "totalConnections", 0, "setLastRequest")

\* stats.totalConnections++
IncConnections(r) ==
    \/ FieldLoad(r, "incConnections", "totalConnections")
    \/ FieldStore(r, "incConnections", "totalConnections", 1, "setLastRequest")

\* ---------------------------------------------------- statsHandler
\* Entry: the method check. For the claims, `seen` records the transfers among
\* `watch` whose completion a client had already observed when this request was
\* made, and `doneBefore` the requests among them whose handler had returned.
statsHandlerEnter(r, method, watch) ==
    /\ Alive /\ proc.listening
    /\ req[r].pc = "idle"
    /\ LET q == [req[r] EXCEPT !.kind = "stats", !.method = method]
       IN  IF method # "GET"
           THEN Set(r, [q EXCEPT !.status = StatusMethodNotAllowed, !.pc = "done"])
           ELSE Set(r, [q EXCEPT !.seen = {d \in watch : ClientObserved(d)},
                                 !.doneBefore = {d \in watch : req[d].pc = "done"},
                                 !.pc = "rlock"])
    /\ UNCHANGED <<stats, mu, clock, maxConcurrent, proc, cli>>

\* stats.mu.RLock(); `atLock` records, for the claims, what the guarded fields
\* held when the lock was granted
RLock(r) ==
    /\ Alive
    /\ req[r].pc = "rlock"
    /\ CanRLock(mu)
    /\ mu' = [mu EXCEPT !.readers = @ \cup {r}]
    /\ Set(r, [req[r] EXCEPT !.atLock = Totals, !.pc = "readDownloads"])
    /\ UNCHANGED <<stats, clock, maxConcurrent, proc, cli>>

\* The field copies of lines 312-319, one per step, in program order
ReadField(r) ==
    /\ Alive
    /\ LET q == req[r]
       IN  \/ /\ q.pc = "readDownloads"
              /\ Set(r, [q EXCEPT !.snap.totalDownloads = stats.totalDownloads,
                                  !.pc = "readUploads"])
           \/ /\ q.pc = "readUploads"
              /\ Set(r, [q EXCEPT !.snap.totalUploads = stats.totalUploads,
                                  !.pc = "readBytesDown"])
           \/ /\ q.pc = "readBytesDown"
              /\ Set(r, [q EXCEPT !.snap.totalBytesDown = stats.totalBytesDown,
                                  !.pc = "readBytesUp"])
           \/ /\ q.pc = "readBytesUp"
              /\ Set(r, [q EXCEPT !.snap.totalBytesUp = stats.totalBytesUp,
                                  !.pc = "readConnections"])
           \/ /\ q.pc = "readConnections"
              /\ Set(r, [q EXCEPT !.snap.totalConnections = stats.totalConnections,
                                  !.pc = "readLastRequest"])
           \/ /\ q.pc = "readLastRequest"
              /\ Set(r, [q EXCEPT !.snap.lastRequest = stats.lastRequestTime,
                                  !.pc = "readPeak"])
           \/ /\ q.pc = "readPeak"
              /\ Set(r, [q EXCEPT !.snap.peakConcurrent = stats.peakConcurrent,
                                  !.pc = "runlock"])
    /\ UNCHANGED <<stats, mu, clock, maxConcurrent, proc, cli>>

\* mutant: the read lock is released by a defer, after the response is written
RUnlockDeferred(r) ==
    /\ Alive
    /\ req[r].pc = "runlock"
    /\ Set(r, [req[r] EXCEPT !.pc = "respond"])
    /\ UNCHANGED <<stats, mu, clock, maxConcurrent, proc, cli>>

\* stats.mu.RUnlock()
RUnlock(r) ==
    /\ Alive
    /\ req[r].pc = "runlock"
    /\ mu' = [mu EXCEPT !.readers = @ \ {r}]
    /\ Set(r, [req[r] EXCEPT !.pc = "respond"])
    /\ UNCHANGED <<stats, clock, maxConcurrent, proc, cli>>

\* mutant: the stats handler counts itself as a connection
RespondCounts(r) ==
    /\ Alive
    /\ req[r].pc = "respond"
    /\ stats' = [stats EXCEPT !.totalConnections = @ + 1]
    /\ Set(r, [req[r] EXCEPT !.snap.taken = TRUE, !.status = StatusOK, !.pc = "done"])
    /\ UNCHANGED <<mu, clock, maxConcurrent, proc, cli>>

\* fmt.Fprintf(w, ...) of the copied values, and the return
Respond(r) ==
    /\ Alive
    /\ req[r].pc = "respond"
    /\ Set(r, [req[r] EXCEPT !.snap.taken = TRUE, !.status = StatusOK, !.pc = "done"])
    /\ UNCHANGED <<stats, mu, clock, maxConcurrent, proc, cli>>

\* The client that got its snapshot sends GET /__stats once more on the same
\* connection: statsHandler is entered again, the first answer kept in `prev`.
StatsAgain(r) ==
    /\ Alive /\ proc.listening
    /\ req[r].pc = "done"
    /\ req[r].kind = "stats"
    /\ req[r].snap.taken
    /\ ~req[r].prev.taken
    /\ Set(r, [req[r] EXCEPT !.prev = req[r].snap, !.snap = NoSnap,
                             !.atLock = <<>>, !.status = 0, !.pc = "rlock"])
    /\ UNCHANGED <<stats, mu, clock, maxConcurrent, proc, cli>>

\* ------------------------------------------------- the server's steps
Methods == {"GET", "POST"}

\* the longest download the model streams: full chunks and a remainder
LongDownload == (MaxChunks - 1) * downloadBufferSize + 1

\* the `bytes` parameters parseBytes rejects: absent, no integer, one below the
\* lower bound, one above the upper bound
BadParams ==
    {NoParam, TextParam, IntParam(minBytes - 1), IntParam(maxBytes + 1)}

\* the `bytes` parameters of the downloads clients ask for: the lower bound (one
\* chunk exactly), chunks and a remainder, and a request without the parameter
DownloadParams == {NoParam, IntParam(minBytes), IntParam(LongDownload)}

\* the `bytes` parameters of the uploads clients make: the upper bound, and a
\* request beyond it
UploadParams == {IntParam(maxBytes), IntParam(maxBytes + 1)}

\* the `bytes` parameters of a request with the wrong method: absent, valid, invalid
ProbeParams == {NoParam, IntParam(minBytes), IntParam(maxBytes + 1)}

\* the body length an upload carries: less than it declares (the other
\* specifications read a body of the declared length)
BodySizes == {minBytes}

\* a download or upload handler's steps once the request is in, the body read
\* aside
TransferStep(r) ==
    \/ LoadCurrent(r)
    \/ LoadPeak(r)
    \/ PeakLoop(r)
    \/ WriteChunk(r)
    \/ WriteError(r)
    \/ ReadError(r)
    \/ Lock(r)
    \/ IncDownloads(r)
    \/ AddBytesDown(r)
    \/ IncUploads(r)
    \/ AddBytesUp(r)
    \/ IncConnections(r)
    \/ SetLastRequest(r)
    \/ Unlock(r)
    \/ Return(r)

\* the stats handler's steps
StatsStep(r) ==
    \/ RLock(r)
    \/ ReadField(r)
    \/ RUnlock(r)
    \/ Respond(r)

\* a handler's steps once the request is in
ServerStep(r) == TransferStep(r) \/ StatsStep(r)

\* connections are numbered in their order of arrival
InOrder(r) == \A q \in Req : q < r => req[q].pc # "idle"

\* the requests of the server's clients to the three endpoints
Arrive(r) ==
    /\ InOrder(r)
    /\ \/ \E param \in DownloadParams : downloadHandlerEnter(r, "GET", param)
       \/ \E param \in UploadParams : uploadHandlerEnter(r, "POST", param)
       \/ \E method \in Methods : statsHandlerEnter(r, method, {})

\* any request a client can send: every kind of bad parameter and either method
\* on both transfer endpoints, beside one download at the lower bound, one upload
\* at the upper bound and a snapshot
AnyArrive(r) ==
    /\ InOrder(r)
    /\ \/ \E param \in BadParams \cup {IntParam(minBytes)} :
             downloadHandlerEnter(r, "GET", param)
       \/ \E param \in ProbeParams : downloadHandlerEnter(r, "POST", param)
       \/ \E param \in BadParams \cup {IntParam(maxBytes)} :
             uploadHandlerEnter(r, "POST", param)
       \/ \E param \in ProbeParams : uploadHandlerEnter(r, "GET", param)
       \/ statsHandlerEnter(r, "GET", {})

InitProc ==
    proc = [sig |-> FALSE, listening |-> TRUE, mainPc |-> "ListenAndServe",
            sdPc |-> "waitSignal", graceExpired |-> FALSE, exit |-> -1]

\* the console client is not part of the server's runs; events and durs are
\* history: what the orchestrator did, and the duration each test returned
NoClient ==
    [pc |-> "off", config |-> [Direction |-> "", Count |-> 0, Size |-> 0, Server |-> ""],
     i |-> 0, downloadSpeeds |-> <<>>, uploadSpeeds |-> <<>>, speeds |-> <<>>,
     totalTime |-> 0, out |-> <<>>, events |-> <<>>, durs |-> <<>>]

InitClient == cli = NoClient

Init == InitStats /\ InitProc /\ InitClient

\* The server under its clients' requests
Next ==
    \E r \in Req :
        \/ Arrive(r)
        \/ ServerStep(r)
        \/ \E m \in BodySizes : ReadBody(r, m)

Spec == Init /\ [][Next]_vars

\* The server under arbitrary requests
ValidationNext ==
    \E r \in Req :
        \/ AnyArrive(r)
        \/ ServerStep(r)
        \/ ReadBody(r, req[r].numBytes)

ValidationSpec == Init /\ [][ValidationNext]_vars

\* the requests of a well-behaved client: a one-chunk download, an upload that
\* carries what it declares, a snapshot
SnapArrive(r) ==
    /\ InOrder(r)
    /\ \/ downloadHandlerEnter(r, "GET", IntParam(minBytes))
       \/ uploadHandlerEnter(r, "POST", IntParam(maxBytes))
       \/ statsHandlerEnter(r, "GET", Req)

\* The server under clients that read the statistics twice
SnapNext ==
    \E r \in Req :
        \/ SnapArrive(r)
        \/ ServerStep(r)
        \/ ReadBody(r, req[r].numBytes)
        \/ StatsAgain(r)

SnapSpec == Init /\ [][SnapNext]_vars

\* the transfers of a well-behaved client
TransferArrive(r) ==
    /\ InOrder(r)
    /\ \/ downloadHandlerEnter(r, "GET", IntParam(minBytes))
       \/ uploadHandlerEnter(r, "POST", IntParam(maxBytes))

\* The server under concurrent transfers
TransferNext ==
    \E r \in Req :
        \/ TransferArrive(r)
        \/ TransferStep(r)
        \/ ReadBody(r, req[r].numBytes)

TransferSpec == Init /\ [][TransferNext]_vars

\* with the scheduling the Go runtime gives the peak loop: a goroutine that can
\* load or compare-and-swap is eventually run
LiveSpec ==
    /\ Init
    /\ [][TransferNext]_vars
    /\ \A r \in Req : WF_vars(LoadPeak(r) \/ PeakLoop(r))

\* ------------------------------------------- the server's lifecycle
\* a connection with a request being served: what server.Shutdown waits for
InFlight(r) == req[r].pc \notin {"idle", "done"}

\* a download or upload being served
TransferInFlight(r) == InFlight(r) /\ req[r].kind \in {"down", "up"}

\* SIGINT or SIGTERM arrives and signal.Notify puts it on sigChan
Signal ==
    /\ Alive
    /\ ~proc.sig
    /\ proc.sdPc = "waitSignal"
    /\ proc' = [proc EXCEPT !.sig = TRUE]
    /\ UNCHANGED <<stats, mu, clock, req, maxConcurrent, cli>>

\* the goroutine's <-sigChan, the log line and context.WithTimeout(10s)
ShutdownBegin ==
    /\ Alive
    /\ proc.sdPc = "waitSignal"
    /\ proc.sig
    /\ proc' = [proc EXCEPT !.sig = FALSE, !.sdPc = "Shutdown"]
    /\ UNCHANGED <<stats, mu, clock, req, maxConcurrent, cli>>

\* server.Shutdown first closes the listeners, which makes ListenAndServe return
\* http.ErrServerClosed at once, then waits for the connections to go idle
ShutdownCloseListeners ==
    /\ Alive
    /\ proc.sdPc = "Shutdown"
    /\ proc' = [proc EXCEPT !.listening = FALSE, !.sdPc = "waitIdle"]
    /\ UNCHANGED <<stats, mu, clock, req, maxConcurrent, cli>>

\* every connection is idle: Shutdown returns nil and the goroutine calls os.Exit(0)
ShutdownIdle ==
    /\ Alive
    /\ proc.sdPc = "waitIdle"
    /\ \A r \in Req : ~InFlight(r)
    /\ proc' = [proc EXCEPT !.sdPc = "exited", !.exit = 0]
    /\ UNCHANGED <<stats, mu, clock, req, maxConcurrent, cli>>

\* the 10 s of shutdownCtx pass first: Shutdown returns the context's error and
\* the goroutine calls os.Exit(1)
ShutdownTimeout ==
    /\ Alive
    /\ proc.sdPc = "waitIdle"
    /\ \E r \in Req : InFlight(r)
    /\ proc' = [proc EXCEPT !.graceExpired = TRUE, !.sdPc = "exited", !.exit = 1]
    /\ UNCHANGED <<stats, mu, clock, req, maxConcurrent, cli>>

\* ListenAndServe returns http.ErrServerClosed, so runServer returns, main returns
\* and the program exits without waiting for any other goroutine
MainReturn ==
    /\ Alive
    /\ proc.mainPc = "ListenAndServe"
    /\ ~proc.listening
    /\ proc' = [proc EXCEPT !.mainPc = "returned", !.exit = 0]
    /\ UNCHANGED <<stats, mu, clock, req, maxConcurrent, cli>>

\* bound: the size in MB the client asks for
TestSize == 10

\* The requests the console client builds: runDownloadTest's GET /__down and
\* runUploadTest's POST /__up for Size * 1_000_000 bytes, and a GET /__stats
ClientArrive(r) ==
    /\ InOrder(r)
    /\ \/ downloadHandlerEnter(r, "GET", IntParam(TestSize * MB))
       \/ uploadHandlerEnter(r, "POST", IntParam(TestSize * MB))
       \/ statsHandlerEnter(r, "GET", Req)

\* The server with its lifecycle, serving the console client's requests
SysNext ==
    \/ \E r \in Req :
          \/ ClientArrive(r)
          \/ ServerStep(r)
          \/ ReadBody(r, req[r].numBytes)
    \/ Signal
    \/ ShutdownBegin
    \/ ShutdownCloseListeners
    \/ ShutdownIdle
    \/ ShutdownTimeout
    \/ MainReturn

SysSpec == Init /\ [][SysNext]_vars

\* ------------------------------------------------ the console client
\* bounds: the largest -count, and the longest a test takes, in clock ticks
MaxCount == 3
MaxElapsed == 2

directionDown == "down"
directionUp == "up"
directionBoth == "both"

isValidDirection(d) == d = directionDown \/ d = directionUp \/ d = directionBoth

\* Config.validate in client mode: the error, or "nil"
validate(c) ==
    IF c.Count < 1 THEN "count must be at least 1"
    ELSE IF c.Size < 1 THEN "size must be at least 1 MB"
    ELSE IF ~isValidDirection(c.Direction) THEN "invalid direction"
    ELSE IF c.Server = "" THEN "server address cannot be empty"
    ELSE "nil"

\* the configurations the flags can give
Configs ==
    [Direction : {directionDown, directionUp, directionBoth, "sideways"},
     Count : 0..MaxCount, Size : {0, 1, TestSize}, Server : {"", "host:8080"}]

\* What the network and the server do to one test: httpClient.Do fails, or answers
\* with a status; the body read fails (a short body is a read error: the response
\* declares its length) or yields the body; the test takes `elapsed` ticks.
Envs ==
    [doErr : BOOLEAN, status : {StatusOK, StatusBadRequest}, readErr : BOOLEAN,
     elapsed : 0..MaxElapsed]

\* (bytes / elapsed.Seconds()) * 8 / 1_000_000, a tick being a second
speedMbps(bytes, elapsed) == (bytes * 8) \div (elapsed * MB)

\* mutant: a test of zero duration returns zeroes and no error
TooQuickNoError == [speed |-> 0, dur |-> 0, err |-> "nil"]

\* if elapsed == 0 { return 0, 0, fmt.Errorf("test completed too quickly to measure") }
TooQuick == [speed |-> 0, dur |-> 0, err |-> "test completed too quickly to measure"]

\* runDownloadTest: [speed, dur, err]
runDownloadTest(config, e) ==
    LET numBytes == config.Size * MB
        bytesDownloaded == numBytes
    IN  IF e.doErr THEN [speed |-> 0, dur |-> 0, err |-> "download failed"]
        ELSE IF e.status # StatusOK
        THEN [speed |-> 0, dur |-> 0, err |-> "server returned status"]
        ELSE IF e.readErr THEN [speed |-> 0, dur |-> 0, err |-> "read failed"]
        ELSE IF e.elapsed = 0
        THEN TooQuick
        ELSE [speed |-> speedMbps(bytesDownloaded, e.elapsed), dur |-> e.elapsed,
              err |-> "nil"]

\* runUploadTest: [speed, dur, err]; the response body's read error is ignored
\* and the speed is that of the declared numBytes
runUploadTest(config, e) ==
    LET numBytes == config.Size * MB
    IN  IF e.doErr THEN [speed |-> 0, dur |-> 0, err |-> "upload failed"]
        ELSE IF e.status # StatusOK
        THEN [speed |-> 0, dur |-> 0, err |-> "server returned status"]
        ELSE IF e.elapsed = 0
        THEN TooQuick
        ELSE [speed |-> speedMbps(numBytes, e.elapsed), dur |-> e.elapsed, err |-> "nil"]

RECURSIVE SumSeq(_)
SumSeq(q) == IF q = <<>> THEN 0 ELSE Head(q) + SumSeq(Tail(q))

\* calculateAverage
calculateAverage(speeds) ==
    IF Len(speeds) = 0 THEN 0 ELSE SumSeq(speeds) \div Len(speeds)

\* mutant: the pause follows every iteration
PauseAfterEvery(i, count) == i < count

\* if i < config.Count-1 { time.Sleep(500 * time.Millisecond) }
PauseAfter(i, count) == i < count - 1

\* mutant: a failed test is reported and the loop goes on
OnTestErrorContinue(next) == next

\* if err != nil { fmt.Printf("ERROR: ..."); return }: where the orchestrator is
\* after the message, `next` being where it would be had the test succeeded
OnTestError(next) == "done"

\* make([]float64, config.Count)
Zeros(n) == [k \in 1..n |-> 0]

Say(line) == Append(cli.out, line)
Log(ev) == Append(cli.events, ev)

ServerIdle == UNCHANGED <<stats, mu, clock, req, maxConcurrent, proc>>

\* main in client mode: validate, then runClient's banner and its switch, then
\* the chosen function's allocations and table header
ClientMain ==
    /\ cli.pc = "main"
    /\ LET c == cli.config
       IN  IF validate(c) # "nil"
           THEN cli' = [cli EXCEPT !.pc = "fatal", !.out = Say(<<"fatal", validate(c)>>)]
           ELSE cli' = [cli EXCEPT
                    !.pc = c.Direction,
                    !.i = 0,
                    !.totalTime = 0,
                    !.downloadSpeeds = IF c.Direction = directionBoth
                                       THEN Zeros(c.Count) ELSE <<>>,
                    !.uploadSpeeds = IF c.Direction = directionBoth
                                     THEN Zeros(c.Count) ELSE <<>>,
                    !.speeds = IF c.Direction = directionBoth
                               THEN <<>> ELSE Zeros(c.Count),
                    !.out = Say(<<"header", c.Direction>>)]
    /\ ServerIdle

\* runBothTests: the loop test; the call of runDownloadTest, or the averages
BothLoop ==
    /\ cli.pc = directionBoth
    /\ IF cli.i < cli.config.Count
       THEN cli' = [cli EXCEPT !.pc = "both.down",
                               !.events = Log(<<"start", "down", cli.i + 1>>)]
       ELSE cli' = [cli EXCEPT
                !.pc = "done",
                !.out = cli.out \o
                    << <<"avg", calculateAverage(cli.downloadSpeeds),
                         calculateAverage(cli.uploadSpeeds)>>,
                       <<"total", cli.totalTime>> >>]
    /\ ServerIdle

\* runDownloadTest returns to runBothTests, which goes on to call runUploadTest
BothDownReturns(e) ==
    /\ cli.pc = "both.down"
    /\ LET t == runDownloadTest(cli.config, e)
       IN  IF t.err # "nil"
           THEN cli' = [cli EXCEPT
                    !.pc = OnTestError("both.up"),
                    !.out = Say(<<"ERROR", "download", cli.i + 1, t.err>>),
                    !.events = Log(<<"fail", "down", cli.i + 1>>)]
           ELSE cli' = [cli EXCEPT
                    !.pc = "both.up",
                    !.downloadSpeeds[cli.i + 1] = t.speed,
                    !.totalTime = @ + t.dur,
                    !.durs = Append(@, t.dur),
                    !.events = cli.events \o << <<"end", "down", cli.i + 1>>,
                                               <<"start", "up", cli.i + 1>> >>]
    /\ ServerIdle

\* runUploadTest returns to runBothTests: the row, then the pause or the next turn
BothUpReturns(e) ==
    /\ cli.pc = "both.up"
    /\ LET t == runUploadTest(cli.config, e)
       IN  IF t.err # "nil"
           THEN cli' = [cli EXCEPT
                    !.pc = OnTestError(directionBoth),
                    !.out = Say(<<"ERROR", "upload", cli.i + 1, t.err>>),
                    !.events = Log(<<"fail", "up", cli.i + 1>>)]
           ELSE cli' = [cli EXCEPT
                    !.uploadSpeeds[cli.i + 1] = t.speed,
                    !.totalTime = @ + t.dur,
                    !.durs = Append(@, t.dur),
                    !.out = Say(<<"row", cli.downloadSpeeds[cli.i + 1], t.speed>>),
                    !.events = Log(<<"end", "up", cli.i + 1>>),
                    !.pc = IF PauseAfter(cli.i, cli.config.Count) THEN "both.sleep"
                                                           ELSE directionBoth,
                    !.i = IF PauseAfter(cli.i, cli.config.Count) THEN @ ELSE @ + 1]
    /\ ServerIdle

\* time.Sleep(500 * time.Millisecond) is over; i++
BothSleep ==
    /\ cli.pc = "both.sleep"
    /\ cli' = [cli EXCEPT !.pc = directionBoth, !.i = @ + 1,
                          !.events = Log(<<"pause", cli.i + 1>>)]
    /\ ServerIdle

\* runDownloadTests and runUploadTests: the loop test
SingleLoop(dir) ==
    /\ cli.pc = dir
    /\ IF cli.i < cli.config.Count
       THEN cli' = [cli EXCEPT !.pc = dir \o ".test",
                               !.events = Log(<<"start", dir, cli.i + 1>>)]
       ELSE cli' = [cli EXCEPT
                !.pc = "done",
                !.out = cli.out \o << <<"avg", calculateAverage(cli.speeds)>>,
                                      <<"total", cli.totalTime>> >>]
    /\ ServerIdle

\* the single test returns to runDownloadTests or runUploadTests
SingleReturns(dir, e) ==
    /\ cli.pc = dir \o ".test"
    /\ LET t == IF dir = directionDown THEN runDownloadTest(cli.config, e)
                                       ELSE runUploadTest(cli.config, e)
       IN  IF t.err # "nil"
           THEN cli' = [cli EXCEPT
                    !.pc = OnTestError(dir),
                    !.out = Say(<<"ERROR", "test", cli.i + 1, t.err>>),
                    !.events = Log(<<"fail", dir, cli.i + 1>>)]
           ELSE cli' = [cli EXCEPT
                    !.speeds[cli.i + 1] = t.speed,
                    !.totalTime = @ + t.dur,
                    !.durs = Append(@, t.dur),
                    !.out = Say(<<"row", t.speed>>),
                    !.events = Log(<<"end", dir, cli.i + 1>>),
                    !.pc = IF PauseAfter(cli.i, cli.config.Count) THEN dir \o ".sleep"
                                                           ELSE dir,
                    !.i = IF PauseAfter(cli.i, cli.config.Count) THEN @ ELSE @ + 1]
    /\ ServerIdle

SingleSleep(dir) ==
    /\ cli.pc = dir \o ".sleep"
    /\ cli' = [cli EXCEPT !.pc = dir, !.i = @ + 1,
                          !.events = Log(<<"pause", cli.i + 1>>)]
    /\ ServerIdle

runDownloadTests ==
    \/ SingleLoop(directionDown)
    \/ \E e \in Envs : SingleReturns(directionDown, e)
    \/ SingleSleep(directionDown)

runUploadTests ==
    \/ SingleLoop(directionUp)
    \/ \E e \in Envs : SingleReturns(directionUp, e)
    \/ SingleSleep(directionUp)

runBothTests ==
    \/ BothLoop
    \/ \E e \in Envs : BothDownReturns(e)
    \/ \E e \in Envs : BothUpReturns(e)
    \/ BothSleep

ClientInit ==
    /\ InitStats
    /\ InitProc
    /\ \E c \in Configs : cli = [NoClient EXCEPT !.pc = "main", !.config = c]

ClientNext == ClientMain \/ runBothTests \/ runDownloadTests \/ runUploadTests

ClientSpec == ClientInit /\ [][ClientNext]_vars


\* ================================================================ claims
AllReturned == \A r \in Req : ~InFlight(r)

\* a download or upload that passed the method check and parseBytes
Admitted(r) == req[r].kind \in {"down", "up"} /\ req[r].numBytes > 0

RECURSIVE SumOver(_, _)
\* the sum of f[r] over the requests of S
SumOver(S, f) ==
    IF S = {} THEN 0
    ELSE LET r == CHOOSE x \in S : TRUE IN f[r] + SumOver(S \ {r}, f)

\* ------------------------------------------------------------------- C1
\* C1: once every download and upload has returned, peakConcurrent equals the
\* largest value currentConcurrent ever held.
C1_PeakIsMaxHeld ==
    AllReturned => stats.peakConcurrent = maxConcurrent

\* ------------------------------------------------------------------- C2
\* C2: currentConcurrent is the number of admitted download/upload handlers that
\* have not returned; it stays within 0..K for K requests and is 0 once every
\* handler has returned, whichever way each one left.
C2_ConcurrentIsInFlight ==
    /\ stats.currentConcurrent = Cardinality({r \in Req : TransferInFlight(r)})
    /\ stats.currentConcurrent \in 0..NumReq
    /\ AllReturned => stats.currentConcurrent = 0

\* two overlapping transfers have returned, one through an error path and one
\* through the success path
C2_Witness ==
    /\ AllReturned
    /\ maxConcurrent = 2
    /\ \E a, b \in Req :
          /\ req[a].pc = "done" /\ req[a].failed
          /\ req[b].pc = "done" /\ Admitted(b) /\ ~req[b].failed

\* ------------------------------------------------------------------- C3
\* the download handler is past its loop without a write failure
LoopDone(r) ==
    /\ req[r].kind = "down"
    /\ Admitted(r)
    /\ ~req[r].failed
    /\ req[r].pc \notin {"idle", "loadCurrent", "loadPeak", "peakLoop", "write"}

\* C3: an admitted download declares Content-Length N; every write is one full
\* chunk (1 MiB) except a last one of N mod 1 MiB when that is not zero; and
\* without a write failure the loop ends with exactly N bytes written.
C3_ExactStreaming ==
    \A r \in Req :
        (req[r].kind = "down" /\ Admitted(r) /\ req[r].contentLength >= 0) =>
            LET q == req[r]
                N == q.numBytes
                n == Len(q.writes)
            IN  /\ N >= minBytes /\ N <= maxBytes
                /\ q.contentLength = N
                /\ q.sent = SumSeq(q.writes)
                /\ \A k \in 1..n :
                      \/ q.writes[k] = downloadBufferSize
                      \/ /\ k = n
                         /\ k = (N \div downloadBufferSize) + 1
                         /\ N % downloadBufferSize # 0
                         /\ q.writes[k] = N % downloadBufferSize
                /\ q.pc = "write" => q.sent < N
                /\ LoopDone(r) => q.sent = N

\* a download of one chunk and a remainder has been streamed to its end
C3_Witness ==
    \E r \in Req :
        /\ LoopDone(r)
        /\ req[r].pc = "done"
        /\ req[r].numBytes = LongDownload
        /\ Len(req[r].writes) = MaxChunks
        /\ req[r].writes[MaxChunks] = 1

\* ------------------------------------------------------------------- C4
\* the parameter is missing, no base-10 integer, or outside minBytes..maxBytes
BadParam(p) ==
    \/ p.tag = "missing"
    \/ p.tag = "text"
    \/ p.tag = "int" /\ (p.val < minBytes \/ p.val > maxBytes)

\* request r is a GET to /__down or a POST to /__up
RightMethod(q) ==
    \/ q.kind = "down" /\ q.method = "GET"
    \/ q.kind = "up" /\ q.method = "POST"

\* C4: a download (GET /__down) or upload (POST /__up) request with a bad `bytes`
\* parameter is answered 400 in the step that receives it, with nothing written
\* or read, and no statistics field changes; it never takes another step.
C4_BadParamRejected ==
    [][\A r \in Req :
          (req'[r] # req[r] /\ RightMethod(req'[r]) /\ BadParam(req'[r].param)) =>
              /\ req[r].pc = "idle"
              /\ req'[r].pc = "done"
              /\ req'[r].status = StatusBadRequest
              /\ req'[r].writes = <<>> /\ req'[r].sent = 0
              /\ req'[r].uploadedBytes = -1
              /\ stats' = stats]_vars

\* a request one unit above maxBytes was rejected after another transfer completed
C4_Witness ==
    \E r, o \in Req :
        /\ RightMethod(req[r])
        /\ req[r].param = IntParam(maxBytes + 1)
        /\ req[r].status = StatusBadRequest
        /\ req[o].pc = "done" /\ req[o].status = StatusOK /\ Admitted(o)
        /\ stats.totalDownloads + stats.totalUploads = 1

\* ------------------------------------------------------------------- C5
\* the download wrote every byte it declared
StreamedAll(r) ==
    /\ req[r].kind = "down"
    /\ req[r].contentLength >= 0
    /\ req[r].sent = req[r].contentLength

NumBytesOf == [r \in Req |-> req[r].numBytes]

\* C5: when every request has returned, totalDownloads is the number of downloads
\* that streamed all their bytes and totalBytesDown is the sum of their sizes.
C5_DownloadsCountedOnce ==
    AllReturned =>
        LET D == {r \in Req : StreamedAll(r)}
        IN  /\ stats.totalDownloads = Cardinality(D)
            /\ stats.totalBytesDown = SumOver(D, NumBytesOf)

\* two overlapping downloads of different sizes have both completed
C5_Witness ==
    /\ AllReturned
    /\ maxConcurrent = 2
    /\ \E a, b \in Req :
          /\ StreamedAll(a) /\ StreamedAll(b)
          /\ req[a].numBytes # req[b].numBytes
    /\ stats.totalDownloads = 2

\* ------------------------------------------------------------------- C6
\* the upload's body was read to its end without error
ReadOK(r) == req[r].kind = "up" /\ req[r].uploadedBytes >= 0

UploadedOf == [r \in Req |-> req[r].uploadedBytes]

\* C6: an upload whose body was read without error, whatever size it declared, is
\* answered 200 with bytes = the count read; once every request has returned
\* totalUploads counts those uploads and totalBytesUp is the sum of the counts read.
C6_UploadCountsActual ==
    /\ \A r \in Req :
          ReadOK(r) => /\ req[r].status = StatusOK
                       /\ req[r].respBytes = req[r].uploadedBytes
                       /\ ~req[r].failed
    /\ AllReturned =>
          LET U == {r \in Req : ReadOK(r)}
          IN  /\ stats.totalUploads = Cardinality(U)
              /\ stats.totalBytesUp = SumOver(U, UploadedOf)

\* an upload declaring maxBytes carried minBytes and was the only transfer
C6_Witness ==
    \E r \in Req :
        /\ ReadOK(r) /\ req[r].pc = "done"
        /\ req[r].numBytes = maxBytes
        /\ req[r].uploadedBytes = minBytes
        /\ req[r].respBytes = minBytes
        /\ stats.totalUploads = 1
        /\ stats.totalBytesUp = minBytes

\* ------------------------------------------------------------------- C7
\* C7: a request that failed (a download's write, an upload's body read) takes
\* exactly two steps from the failure on: the failing step, which writes nothing
\* more and answers an upload with 500, and the return, which decrements
\* currentConcurrent once; neither changes a total or lastRequestTime.
C7_AbortLeavesStats ==
    [][\A r \in Req :
          (req'[r] # req[r] /\ req'[r].failed) =>
              /\ Totals' = Totals
              /\ req'[r].writes = req[r].writes
              /\ req'[r].sent = req[r].sent
              /\ req'[r].kind = "up" => req'[r].status = StatusInternalServerError
              /\ IF req[r].failed
                 THEN /\ req[r].pc = "return" /\ req'[r].pc = "done"
                      /\ stats'.currentConcurrent = stats.currentConcurrent - 1
                 ELSE /\ req'[r].pc = "return"
                      /\ stats'.currentConcurrent = stats.currentConcurrent]_vars

\* a download that failed after its first chunk and an upload whose read failed
\* have both returned
C7_Witness ==
    \E a, b \in Req :
        /\ req[a].kind = "down" /\ req[a].failed /\ req[a].pc = "done"
        /\ Len(req[a].writes) = 1
        /\ req[b].kind = "up" /\ req[b].failed /\ req[b].pc = "done"
        /\ req[b].status = StatusInternalServerError
        /\ stats.currentConcurrent = 0
        /\ Totals = <<0, 0, 0, 0, 0, 0>>

\* ------------------------------------------------------------------- C8
\* C8: a /__stats snapshot requested after a client has observed transfers as
\* complete includes them; after one download of TestSize MB against a fresh
\* server it shows total_downloads = 1 and total_bytes_down = TestSize * 1_000_000.
C8_SnapshotIncludesObserved ==
    \A s \in Req :
        (req[s].kind = "stats" /\ req[s].snap.taken) =>
            LET D == {d \in req[s].seen : req[d].kind = "down"}
                U == {u \in req[s].seen : req[u].kind = "up"}
            IN  /\ req[s].snap.totalDownloads >= Cardinality(D)
                /\ req[s].snap.totalBytesDown >= SumOver(D, NumBytesOf)
                /\ req[s].snap.totalUploads >= Cardinality(U)
                /\ req[s].snap.totalBytesUp >= SumOver(U, UploadedOf)

\* ------------------------------------------------------------------- C9
\* C9: the server process has not exited while a download or upload is in flight
\* unless the 10-second grace period has expired.
C9_ExitWaitsForInFlight ==
    proc.exit # -1 => ((\A r \in Req : ~TransferInFlight(r)) \/ proc.graceExpired)

\* ------------------------------------------------------------------ C10
RECURSIVE BothSchedule(_, _)
\* what runBothTests does from iteration k to iteration n when nothing fails
BothSchedule(k, n) ==
    IF k > n THEN <<>>
    ELSE << <<"start", "down", k>>, <<"end", "down", k>>,
            <<"start", "up", k>>, <<"end", "up", k>> >>
         \o (IF k < n THEN << <<"pause", k>> >> ELSE <<>>)
         \o BothSchedule(k + 1, n)

IsPrefix(a, b) == Len(a) <= Len(b) /\ a = SubSeq(b, 1, Len(a))

NoTestFailed == \A k \in 1..Len(cli.events) : cli.events[k][1] # "fail"

Rows == {k \in 1..Len(cli.out) : cli.out[k][1] = "row"}

\* C10: in `both` mode, as long as no test fails, the tests run one at a time in
\* the order download_1, upload_1, ..., download_N, upload_N with a pause after
\* every iteration but the last; a completed run made 2N tests, recorded N
\* download and N upload results and paused N-1 times.
C10_BothSequential ==
    (cli.pc \notin {"off", "main", "fatal"}
        /\ cli.config.Direction = directionBoth /\ NoTestFailed) =>
        LET N == cli.config.Count
            plan == BothSchedule(1, N)
        IN  /\ IsPrefix(cli.events, plan)
            /\ cli.pc = "done" =>
                  /\ cli.events = plan
                  /\ Len(cli.downloadSpeeds) = N /\ Len(cli.uploadSpeeds) = N
                  /\ Cardinality(Rows) = N
                  /\ Cardinality({k \in 1..Len(cli.events) :
                                     cli.events[k][1] = "start"}) = 2 * N
                  /\ Cardinality({k \in 1..Len(cli.events) :
                                     cli.events[k][1] = "pause"}) = N - 1

\* a run of MaxCount iterations in `both` mode has completed without a failure
C10_Witness ==
    /\ cli.pc = "done"
    /\ cli.config.Direction = directionBoth
    /\ cli.config.Count = MaxCount
    /\ NoTestFailed
    /\ Len(cli.events) = 5 * MaxCount - 1

\* ------------------------------------------------------------------ C11
\* the positions of the events of one kind in the orchestrator's history
EventsOf(kind) == {k \in 1..Len(cli.events) : cli.events[k][1] = kind}

\* the lines of one kind the orchestrator has printed
LinesOf(kind) == {k \in 1..Len(cli.out) : cli.out[k][1] = kind}

\* the result line of iteration k as the orchestrator prints it
RowOf(k) ==
    IF cli.config.Direction = directionBoth
    THEN <<"row", cli.downloadSpeeds[k], cli.uploadSpeeds[k]>>
    ELSE <<"row", cli.speeds[k]>>

\* C11: in every direction mode, once a test has failed at iteration i the
\* failure is the last thing the orchestrator did: the run is over, no test was
\* started after it (in `both` mode a failed download is not followed by the
\* upload of iteration i), no pause follows it, no average and no total line is
\* printed, and the output is the header, the i-1 result lines of the earlier
\* iterations and the error message.
C11_FailureAborts ==
    EventsOf("fail") # {} =>
        LET n == Len(cli.events)
            f == cli.events[n]
            i == f[3]
            both == cli.config.Direction = directionBoth
        IN  /\ EventsOf("fail") = {n}
            /\ cli.pc = "done"
            /\ i = cli.i + 1 /\ i \in 1..cli.config.Count
            /\ Cardinality(EventsOf("start")) =
                  IF both THEN 2 * (i - 1) + (IF f[2] = "down" THEN 1 ELSE 2) ELSE i
            /\ Cardinality(EventsOf("pause")) = i - 1
            /\ LinesOf("avg") = {} /\ LinesOf("total") = {}
            /\ Len(cli.out) = i + 1
            /\ cli.out[1] = <<"header", cli.config.Direction>>
            /\ \A k \in 1..(i - 1) : cli.out[k + 1] = RowOf(k)
            /\ cli.out[i + 1][1] = "ERROR" /\ cli.out[i + 1][3] = i

\* in `both` mode the download of the second of MaxCount iterations failed
C11_Witness ==
    /\ cli.config.Direction = directionBoth
    /\ cli.config.Count = MaxCount
    /\ cli.pc = "done"
    /\ cli.events # <<>>
    /\ cli.events[Len(cli.events)] = <<"fail", "down", 2>>
    /\ Cardinality(LinesOf("row")) = 1

\* ------------------------------------------------------------------ C12
\* time.Sleep(500 * time.Millisecond) and time.Second, in milliseconds
pauseDuration == 500
Second == 1000

\* the run went through every iteration and printed its total
Completed == cli.pc = "done" /\ LinesOf("total") # {}

\* the total the orchestrator prints, in milliseconds
ReportedTotal == cli.out[Len(cli.out)][2] * Second

\* C12: on full completion of a run of N iterations in `both` mode the reported
\* total time is the sum of the durations of the 2N tests plus the N-1 pauses
\* between iterations.
C12_TotalIncludesPauses ==
    (Completed /\ cli.config.Direction = directionBoth) =>
        ReportedTotal = SumSeq(cli.durs) * Second
                            + (cli.config.Count - 1) * pauseDuration

\* ------------------------------------------------------------------ C13
\* the values a snapshot reports
Reported(sn) ==
    <<sn.totalDownloads, sn.totalUploads, sn.totalBytesDown, sn.totalBytesUp,
      sn.totalConnections, sn.peakConcurrent, sn.lastRequest>>

\* every download or upload the server has seen had returned before the first
\* of s's two snapshots was requested
NoTransferSince(s) ==
    \A d \in Req : req[d].kind \in {"down", "up"} => d \in req[s].doneBefore

TwoSnapshotsAgree ==
    \A s \in Req :
        (req[s].kind = "stats" /\ req[s].snap.taken /\ req[s].prev.taken
            /\ NoTransferSince(s)) =>
                Reported(req[s].snap) = Reported(req[s].prev)

\* C13: two /__stats snapshots with no download or upload request running or
\* completing from the first request to the second answer report the same seven
\* values, and no step of a stats request changes a statistics field.
C13_SnapshotIdempotent ==
    [][/\ TwoSnapshotsAgree'
       /\ \A s \in Req :
             (req'[s] # req[s] /\ req'[s].kind = "stats") => stats' = stats]_vars

\* after a completed download, two snapshots were taken and both show it
C13_Witness ==
    \E s, d \in Req :
        /\ req[s].kind = "stats" /\ req[s].pc = "done"
        /\ req[s].snap.taken /\ req[s].prev.taken
        /\ NoTransferSince(s)
        /\ req[d].kind = "down" /\ d \in req[s].doneBefore
        /\ req[s].snap.totalDownloads = 1
        /\ req[s].prev.totalBytesDown = minBytes

\* ------------------------------------------------------------------ C14
\* the stats handler has copied every field
Copied(s) ==
    /\ req[s].kind = "stats"
    /\ req[s].pc \in {"runlock", "respond"} \/ req[s].snap.taken

\* the six guarded values of a snapshot, in the order of Totals
Guarded(sn) ==
    <<sn.totalDownloads, sn.totalUploads, sn.totalBytesDown, sn.totalBytesUp,
      sn.totalConnections, sn.lastRequest>>

\* C14: the six lock-guarded values of every snapshot are the values the fields
\* held together when the read lock was granted; they are the totals of a set of
\* completed transfers, each with its count and its bytes (and an upload with its
\* connection), never a transfer's count without its bytes.
C14_SnapshotIsInstant ==
    \A s \in Req :
        Copied(s) =>
            LET sn == req[s].snap
            IN  /\ Guarded(sn) = req[s].atLock
                /\ sn.totalConnections = sn.totalUploads
                /\ (sn.lastRequest = 0) = (sn.totalDownloads + sn.totalUploads = 0)
                /\ \E D \in SUBSET {d \in Req : StreamedAll(d)} :
                      /\ sn.totalDownloads = Cardinality(D)
                      /\ sn.totalBytesDown = SumOver(D, NumBytesOf)
                /\ \E U \in SUBSET {u \in Req : ReadOK(u)} :
                      /\ sn.totalUploads = Cardinality(U)
                      /\ sn.totalBytesUp = SumOver(U, UploadedOf)

\* a snapshot requested while an upload was being served shows that upload whole
C14_Witness ==
    \E s, u \in Req :
        /\ req[s].kind = "stats" /\ req[s].snap.taken
        /\ req[u].kind = "up" /\ ReadOK(u)
        /\ u < s /\ u \notin req[s].doneBefore
        /\ req[s].snap.totalUploads = 1
        /\ req[s].snap.totalConnections = 1
        /\ req[s].snap.totalBytesUp = req[u].uploadedBytes

\* ------------------------------------------------------------------ C15
HoldsLock(r) == mu.writer = r \/ r \in mu.readers

\* the handler's next step writes to or reads from its connection
AtNetwork(r) == req[r].pc \in {"write", "read", "respond"}

\* the handler is between Lock and Unlock, or between RLock and RUnlock
InCritical(r) ==
    req[r].pc \in {"incDownloads", "incDownloads.store", "addBytesDown",
                   "addBytesDown.store", "incUploads", "incUploads.store",
                   "addBytesUp", "addBytesUp.store", "incConnections",
                   "incConnections.store", "setLastRequest", "unlock",
                   "readDownloads", "readUploads", "readBytesDown", "readBytesUp",
                   "readConnections", "readLastRequest", "readPeak", "runlock"}

\* C15: a handler holds stats.mu only between its Lock/RLock and its
\* Unlock/RUnlock, where it does no network I/O: a download takes the lock after
\* its last write, an upload after its body is read and its response written,
\* both release it before returning, and the stats handler releases it before
\* writing its response; so when every other request is at a network read or
\* write (or not being served), a handler waiting for the lock can take it.
C15_NoIOUnderLock ==
    \A r \in Req :
        /\ HoldsLock(r) <=> InCritical(r)
        /\ AtNetwork(r) => ~HoldsLock(r)
        /\ req[r].pc \in {"return", "done"} => ~HoldsLock(r)
        /\ mu.writer = r =>
              /\ req[r].kind = "down" => req[r].remaining = 0 /\ req[r].sent = req[r].numBytes
              /\ req[r].kind = "up" => req[r].uploadedBytes >= 0 /\ req[r].respBytes >= 0
        /\ (\A o \in Req \ {r} : AtNetwork(o) \/ ~InFlight(o)) =>
              /\ req[r].pc = "lock" => CanLock(mu)
              /\ req[r].pc = "rlock" => CanRLock(mu)

\* a download is in the middle of its stream while another request holds the
\* exclusive lock
C15_Witness ==
    \E a, b \in Req :
        /\ req[a].kind = "down" /\ req[a].pc = "write"
        /\ req[a].writes # <<>> /\ req[a].remaining > 0
        /\ mu.writer = b

\* ------------------------------------------------------------------ C16
\* the upload handler is past its `stats.totalConnections++`
PastIncConnections(u) ==
    /\ ReadOK(u)
    /\ req[u].pc \in {"setLastRequest", "unlock", "return", "done"}

\* the exclusive lock is held by an upload handler
UploadUpdating == mu.writer # 0 /\ req[mu.writer].kind = "up"

\* C16 as stated: in every reachable state totalConnections equals totalUploads.
C16_ConnectionsEqualUploads ==
    stats.totalConnections = stats.totalUploads

\* C16 amended: totalConnections is the number of uploads that have passed their
\* `totalConnections++` (one increment per successfully read upload, none for a
\* download or a failed request); it equals totalUploads whenever no upload
\* handler holds the exclusive lock, and is at most one behind while one does.
C16_ConnectionsFollowUploads ==
    /\ stats.totalConnections = Cardinality({u \in Req : PastIncConnections(u)})
    /\ ~UploadUpdating => stats.totalConnections = stats.totalUploads
    /\ stats.totalConnections <= stats.totalUploads
    /\ stats.totalUploads <= stats.totalConnections + 1

\* a download and an upload have both completed: one connection counted
C16_Witness ==
    /\ AllReturned
    /\ \E d, u \in Req : StreamedAll(d) /\ ReadOK(u)
    /\ stats.totalDownloads = 1
    /\ stats.totalUploads = 1
    /\ stats.totalConnections = 1

\* ------------------------------------------------------------------ C17
\* the handler is in its peak-update loop, or about to read peak for it
InPeakLoop(r) == req[r].pc \in {"loadPeak", "peakLoop"}

\* C17: a handler in its peak-update loop eventually leaves it, whatever the
\* other requests do; an evaluation of the loop condition leaves the loop when
\* current does not exceed the peak last read or the swap succeeds (the stored
\* peak then is current), and otherwise the stored peak differs from the one
\* read and the handler reads it again.
C17_PeakLoopTerminates ==
    /\ \A r \in Req : InPeakLoop(r) ~> ~InPeakLoop(r)
    /\ [][\A r \in Req :
             (req[r].pc = "peakLoop" /\ req'[r] # req[r]) =>
                 IF req[r].current <= req[r].peak
                 THEN ~InPeakLoop(r)' /\ stats' = stats
                 ELSE IF stats.peakConcurrent = req[r].peak
                 THEN ~InPeakLoop(r)' /\ stats'.peakConcurrent = req[r].current
                 ELSE req'[r].pc = "loadPeak" /\ stats' = stats]_vars

\* a handler's swap is bound to fail: it is about to compare-and-swap over the
\* peak it read, and the other handler has stored a larger one since
C17_Witness ==
    \E r, o \in Req :
        /\ req[r].pc = "peakLoop"
        /\ req[r].current > req[r].peak
        /\ stats.peakConcurrent > req[r].peak
        /\ o # r /\ Admitted(o) /\ req[o].pc \in {"write", "read"}

\* ------------------------------------------------------------------ C18
\* C18: peakConcurrent never exceeds the largest value currentConcurrent has
\* held, nor the number of requests admitted so far, and no step lowers it.
C18_PeakBoundedMonotone ==
    [][/\ stats'.peakConcurrent >= stats.peakConcurrent
       /\ stats'.peakConcurrent <= maxConcurrent'
       /\ stats'.peakConcurrent <= Cardinality({r \in Req : Admitted(r)})']_vars

\* two overlapping transfers have raised the peak to 1 and then to 2 and returned
C18_Witness ==
    /\ AllReturned
    /\ stats.peakConcurrent = 2
    /\ maxConcurrent = 2
    /\ Cardinality({r \in Req : Admitted(r)}) = 2

\* ------------------------------------------------------------------ C19
\* the orchestrator is inside a call of runDownloadTest or runUploadTest
TestRunning == cli.pc \in {"both.down", "both.up", "down.test", "up.test"}

\* C19: whenever a test of a validated configuration runs, the byte count it
\* requests, Size * 1_000_000, is the count the server's parseBytes accepts.
C19_ValidSizeAccepted ==
    (TestRunning /\ validate(cli.config) = "nil") =>
        LET numBytes == cli.config.Size * MB
        IN  parseBytes(IntParam(numBytes)) = <<numBytes, TRUE>>

\* ------------------------------------------------------------------ C20
\* request q is a download or upload request with the other method
WrongMethod(q) == q.kind \in {"down", "up"} /\ ~RightMethod(q)

\* C20: a request to /__down that is not a GET, or to /__up that is not a POST,
\* is answered 405 in the step that receives it whatever its `bytes` parameter
\* is, with nothing written or read and no statistics field, lock or counter
\* changed; it never takes another step.
C20_MethodCheckedFirst ==
    [][\A r \in Req :
          (req'[r] # req[r] /\ WrongMethod(req'[r])) =>
              /\ req[r].pc = "idle"
              /\ req'[r].pc = "done"
              /\ req'[r].status = StatusMethodNotAllowed
              /\ req'[r].writes = <<>> /\ req'[r].sent = 0
              /\ req'[r].uploadedBytes = -1
              /\ req'[r].numBytes = 0
              /\ stats' = stats
              /\ mu' = mu]_vars

\* a POST to /__down with a valid parameter and a GET to /__up with one above
\* maxBytes were both answered 405
C20_Witness ==
    \E a, b \in Req :
        /\ req[a].kind = "down" /\ req[a].method = "POST"
        /\ req[a].param = IntParam(minBytes)
        /\ req[a].status = StatusMethodNotAllowed
        /\ req[b].kind = "up" /\ req[b].method = "GET"
        /\ req[b].param = IntParam(maxBytes + 1)
        /\ req[b].status = StatusMethodNotAllowed
        /\ stats.currentConcurrent = 0 /\ stats.peakConcurrent = 0

\* ------------------------------------------------------------------ C21
\* under e the test of direction dir reaches its time.Since(startTime): the
\* request was answered 200 and, for a download, the body was read
Measured(dir, e) ==
    /\ ~e.doErr
    /\ e.status = StatusOK
    /\ dir = directionDown => ~e.readErr

\* the step is the return of a test of direction dir under e
TestReturns(dir, e) ==
    \/ SingleReturns(dir, e)
    \/ dir = directionDown /\ BothDownReturns(e)
    \/ dir = directionUp /\ BothUpReturns(e)

\* what the test of direction dir returns under e
TestOf(dir, e) ==
    IF dir = directionDown THEN runDownloadTest(cli.config, e)
                           ELSE runUploadTest(cli.config, e)

\* the series the orchestrator stores the results of direction dir in
SeriesOf(c, dir) ==
    IF c.config.Direction # directionBoth THEN c.speeds
    ELSE IF dir = directionDown THEN c.downloadSpeeds ELSE c.uploadSpeeds

\* C21: a download or upload test that measures an elapsed time of zero returns
\* the "too quickly" error with no throughput and no duration, the orchestrator
\* prints that error and stops, and nothing of the test enters its series, its
\* total or its result lines; a test answered 200 that measures a non-zero
\* elapsed time returns no error, the throughput of its bytes over that time
\* and the time itself, which the orchestrator stores in slot i of the series and
\* adds to the total. Hence every throughput was computed with a non-zero
\* divisor.
C21_ZeroElapsedIsError ==
    /\ [](\A k \in 1..Len(cli.durs) : cli.durs[k] > 0)
    /\ [][\A dir \in {directionDown, directionUp} : \A e \in Envs :
            (TestReturns(dir, e) /\ Measured(dir, e)) =>
                LET t == TestOf(dir, e)
                    i == cli.i + 1
                IN  IF e.elapsed = 0
                    THEN /\ t.err = "test completed too quickly to measure"
                         /\ t.speed = 0 /\ t.dur = 0
                         /\ cli'.pc = "done"
                         /\ cli'.out = Append(cli.out, cli'.out[Len(cli'.out)])
                         /\ cli'.out[Len(cli'.out)][1] = "ERROR"
                         /\ cli'.out[Len(cli'.out)][4] = t.err
                         /\ cli'.downloadSpeeds = cli.downloadSpeeds
                         /\ cli'.uploadSpeeds = cli.uploadSpeeds
                         /\ cli'.speeds = cli.speeds
                         /\ cli'.totalTime = cli.totalTime
                         /\ cli'.durs = cli.durs
                    ELSE /\ t.err = "nil"
                         /\ t.speed = (cli.config.Size * MB * 8) \div (e.elapsed * MB)
                         /\ t.dur = e.elapsed
                         /\ cli'.pc # "done"
                         /\ SeriesOf(cli', dir) =
                                [SeriesOf(cli, dir) EXCEPT ![i] = t.speed]
                         /\ cli'.totalTime = cli.totalTime + e.elapsed
                         /\ cli'.durs = Append(cli.durs, e.elapsed)
                         /\ \A k \in 1..Len(cli'.out) : cli'.out[k][1] # "ERROR"]_vars

\* in `both` mode the first iteration gave its result line and the upload of the
\* second one measured no elapsed time
C21_Witness ==
    /\ cli.config.Direction = directionBoth
    /\ cli.pc = "done"
    /\ Len(cli.out) = 3
    /\ cli.out[2][1] = "row"
    /\ cli.out[3] = <<"ERROR", "upload", 2, "test completed too quickly to measure">>
    /\ Len(cli.durs) = 3
    /\ cli.uploadSpeeds[2] = 0
====
